---------------------------- MODULE Spec2Model ----------------------------
(***************************************************************************)
(* A model of gorandomify (src/main.go): the token matcher (getUpdater),   *)
(* the generators (getInt, randomString, getRandomStrNlen, uuid), the      *)
(* document walker (copyData, traverseAndUpdate, parseAndUpdate) and the   *)
(* pipeline of main.                                                       *)
(*                                                                         *)
(* Go strings are sequences of one-character strings, so that prefix       *)
(* tests, splitting, the regular expression and strconv.Atoi are computed  *)
(* character by character.  Go's int is a two's complement word of IntBits *)
(* bits.  The random source is a stream of draws taken from a bounded      *)
(* family of streams (RandSources).                                        *)
(***************************************************************************)
EXTENDS Integers, Sequences, FiniteSets, TLC

(***************************************************************************)
(* Bounds of the model.                                                    *)
(***************************************************************************)
\* Width of Go's int in the model (64 on the usual build).
IntBits == 16
\* Longest slice the runtime allocates; a larger make() fails at run time.
MaxAlloc == 4096
\* Longest digit string enumerated for a numeric token argument.
MaxDigits == 2
\* Largest stride of a random stream.
MaxStep == 1
\* Deepest nesting of mappings below the top level of a document.
MaxDepth == 2

MaxInt == 2^(IntBits - 1) - 1
MinInt == -MaxInt - 1

\* Go's int arithmetic wraps around.
Wrap(x) == ((x - MinInt) % (2^IntBits)) + MinInt

(***************************************************************************)
(* Strings.                                                                *)
(***************************************************************************)
charset ==
  << "a","b","c","d","e","f","g","h","i","j","k","l","m",
     "n","o","p","q","r","s","t","u","v","w","x","y","z",
     "A","B","C","D","E","F","G","H","I","J","K","L","M",
     "N","O","P","Q","R","S","T","U","V","W","X","Y","Z",
     "0","1","2","3","4","5","6","7","8","9" >>

Digits == << "0","1","2","3","4","5","6","7","8","9" >>

IsDigit(c) == \E i \in 1..10 : Digits[i] = c

DigitVal(c) == (CHOOSE i \in 1..10 : Digits[i] = c) - 1

\* strings.HasPrefix
HasPrefix(s, prefix) ==
  Len(s) >= Len(prefix) /\ SubSeq(s, 1, Len(prefix)) = prefix

\* strings.HasSuffix
HasSuffix(s, suffix) ==
  Len(s) >= Len(suffix) /\ SubSeq(s, Len(s) - Len(suffix) + 1, Len(s)) = suffix

\* strings.TrimSuffix
TrimSuffix(s, suffix) ==
  IF HasSuffix(s, suffix) THEN SubSeq(s, 1, Len(s) - Len(suffix)) ELSE s

\* strings.Split(s, sep) for a one-character separator: the parts between
\* the occurrences of sep, always at least one part.
RECURSIVE SplitFrom(_, _, _)
SplitFrom(s, sep, cur) ==
  IF s = << >> THEN << cur >>
  ELSE IF Head(s) = sep THEN << cur >> \o SplitFrom(Tail(s), sep, << >>)
  ELSE SplitFrom(Tail(s), sep, Append(cur, Head(s)))

Split(s, sep) == SplitFrom(s, sep, << >>)

\* The value of a digit string, saturating just above MaxInt + 1.
RECURSIVE Magnitude(_, _)
Magnitude(ds, acc) ==
  IF ds = << >> THEN acc
  ELSE IF acc > MaxInt + 1 THEN acc
  ELSE Magnitude(Tail(ds), acc * 10 + DigitVal(Head(ds)))

\* strconv.Atoi: an optional sign, then one or more decimal digits; a syntax
\* error otherwise, and a range error (with the nearest int) when the value
\* does not fit in an int.
Atoi(s) ==
  LET signed == s # << >> /\ Head(s) \in {"+", "-"}
      neg    == s # << >> /\ Head(s) = "-"
      ds     == IF signed THEN Tail(s) ELSE s
      m      == Magnitude(ds, 0)
  IN  IF ds = << >> \/ \E i \in 1..Len(ds) : ~IsDigit(ds[i])
        THEN [val |-> 0, err |-> "invalid syntax"]
      ELSE IF ~neg /\ m > MaxInt
        THEN [val |-> MaxInt, err |-> "value out of range"]
      ELSE IF neg /\ m > MaxInt + 1
        THEN [val |-> MinInt, err |-> "value out of range"]
      ELSE [val |-> IF neg THEN -m ELSE m, err |-> ""]

\* strconv.Itoa for n >= 0.
RECURSIVE Itoa(_)
Itoa(n) ==
  IF n < 10 THEN << Digits[n + 1] >>
  ELSE Append(Itoa(n \div 10), Digits[(n % 10) + 1])

AllDigits(s) == s # << >> /\ \A i \in 1..Len(s) : IsDigit(s[i])

\* regexp.MustCompile(`^\$INT\((\d+):(\d+)\)$`).FindStringSubmatch(value):
\* the empty sequence when value does not match, else the whole match and
\* the two groups.
FindStringSubmatch(value) ==
  LET open  == << "$", "I", "N", "T", "(" >>
      body  == SubSeq(value, Len(open) + 1, Len(value) - 1)
      parts == Split(body, ":")
  IN  IF /\ HasPrefix(value, open)
         /\ Len(value) > Len(open)
         /\ value[Len(value)] = ")"
         /\ Len(parts) = 2
         /\ AllDigits(parts[1])
         /\ AllDigits(parts[2])
      THEN << value, parts[1], parts[2] >>
      ELSE << >>

(***************************************************************************)
(* The random source.  A stream is a base point of the range and a stride; *)
(* draw number i of a call over the range [0, n) is Draw(src, i, n).       *)
(***************************************************************************)
RandSources == [base : {"lo", "mid", "hi"}, step : 0..MaxStep]

Draw(src, i, n) ==
  LET b == CASE src.base = "lo"  -> 0
             [] src.base = "mid" -> n \div 2
             [] src.base = "hi"  -> n - 1
  IN  (b + i * src.step) % n

\* rand.Intn(n): panics unless n > 0.
Intn(n, src) ==
  IF n <= 0 THEN [val |-> 0, panic |-> "invalid argument to Intn"]
  ELSE [val |-> Draw(src, 0, n), panic |-> ""]

(***************************************************************************)
(* Generators.  A result is the returned value (n for an int, s for a      *)
(* string), the error text ("" for nil) and the run-time panic ("" when    *)
(* the call returns).                                                      *)
(***************************************************************************)
Result(kind, n, s, err, panic) ==
  [kind |-> kind, n |-> n, s |-> s, err |-> err, panic |-> panic]

NoResult == Result("none", 0, << >>, "", "")

DefaultIntRange == 10000

\* getInt with the default drawn from [0, DefaultIntRange].
getIntWideDefault(value, src) ==
  LET matches == FindStringSubmatch(value)
  IN  IF Len(matches) = 0
      THEN Result("int", Intn(DefaultIntRange + 1, src).val, << >>, "", "")
      ELSE LET lower == Atoi(matches[2])
               upper == Atoi(matches[3])
           IN  IF lower.err # "" \/ upper.err # "" \/ lower.val > upper.val
               THEN Result("int", 0, << >>, "invalid INT range", "")
               ELSE LET r == Intn(Wrap(upper.val - lower.val + 1), src)
                    IN  IF r.panic # ""
                        THEN Result("none", 0, << >>, "", r.panic)
                        ELSE Result("int", Wrap(r.val + lower.val), << >>, "", "")

\* getInt with a bound that fails to parse sent down the default path.
getIntDegrade(value, src) ==
  LET matches == FindStringSubmatch(value)
  IN  IF Len(matches) = 0
      THEN Result("int", Intn(DefaultIntRange, src).val, << >>, "", "")
      ELSE LET lower == Atoi(matches[2])
               upper == Atoi(matches[3])
           IN  IF lower.err # "" \/ upper.err # ""
               THEN Result("int", Intn(DefaultIntRange, src).val, << >>, "", "")
               ELSE IF lower.val > upper.val
               THEN Result("int", 0, << >>, "invalid INT range", "")
               ELSE LET r == Intn(Wrap(upper.val - lower.val + 1), src)
                    IN  IF r.panic # ""
                        THEN Result("none", 0, << >>, "", r.panic)
                        ELSE Result("int", Wrap(r.val + lower.val), << >>, "", "")

\* getInt
getInt(value, src) ==
  LET matches == FindStringSubmatch(value)
  IN  IF Len(matches) = 0
      THEN Result("int", Intn(DefaultIntRange, src).val, << >>, "", "")
      ELSE LET lower == Atoi(matches[2])
               upper == Atoi(matches[3])
           IN  IF lower.err # "" \/ upper.err # "" \/ lower.val > upper.val
               THEN Result("int", 0, << >>, "invalid INT range", "")
               ELSE LET r == Intn(Wrap(upper.val - lower.val + 1), src)
                    IN  IF r.panic # ""
                        THEN Result("none", 0, << >>, "", r.panic)
                        ELSE Result("int", Wrap(r.val + lower.val), << >>, "", "")

\* getRandomStrNlen: make([]byte, n) fails at run time for n < 0 and for a
\* length the runtime cannot allocate; else n draws from charset.
getRandomStrNlen(n, src) ==
  IF n < 0 \/ n > MaxAlloc
  THEN Result("none", 0, << >>, "", "makeslice: len out of range")
  ELSE Result("string", 0,
              [i \in 1..n |-> charset[Draw(src, i - 1, Len(charset)) + 1]],
              "", "")

DefaultLength == 10

\* randomString
randomString(value, src) ==
  LET parts  == Split(value, "(")
      l      == IF Len(parts) = 2
                THEN Atoi(TrimSuffix(parts[2], << ")" >>))
                ELSE [val |-> 0, err |-> "no argument"]
      length == IF Len(parts) = 2 /\ l.err = "" THEN l.val ELSE DefaultLength
  IN  getRandomStrNlen(length, src)


hexchars ==
  << "0","1","2","3","4","5","6","7","8","9","a","b","c","d","e","f" >>

\* uuid.New().String(): 32 hexadecimal digits from the random source, the
\* version nibble 4, the variant nibble in 8..b, hyphens after the digits
\* 8, 12, 16 and 20.
NewUUIDString(src) ==
  LET nibble(i) == CASE i = 12 -> 4
                     [] i = 16 -> 8 + (Draw(src, i, 16) % 4)
                     [] OTHER  -> Draw(src, i, 16)
      hex == [i \in 1..32 |-> hexchars[nibble(i - 1) + 1]]
  IN  SubSeq(hex, 1, 8) \o << "-" >> \o SubSeq(hex, 9, 12) \o << "-" >>
        \o SubSeq(hex, 13, 16) \o << "-" >> \o SubSeq(hex, 17, 20)
        \o << "-" >> \o SubSeq(hex, 21, 32)

\* A matcher that takes any value starting with "$" for a token.
getUpdaterAnyDollar(value) ==
  CASE HasPrefix(value, << "$", "I", "N", "T" >>)      -> "int"
    [] HasPrefix(value, << "$", "C", "H", "A", "R" >>) -> "char"
    [] HasPrefix(value, << "$" >>)                     -> "uuid"
    [] OTHER -> "nil"

\* getUpdater: the key of the updaters table, or "nil".
getUpdater(value) ==
  CASE HasPrefix(value, << "$", "U", "U", "I", "D" >>) -> "uuid"
    [] HasPrefix(value, << "$", "I", "N", "T" >>)      -> "int"
    [] HasPrefix(value, << "$", "C", "H", "A", "R" >>) -> "char"
    [] OTHER -> "nil"

\* Updater.Update of the three updaters.
Update(updater, value, src) ==
  CASE updater = "uuid" -> Result("string", 0, NewUUIDString(src), "", "")
    [] updater = "int"  -> getInt(value, src)
    [] updater = "char" -> randomString(value, src)

(***************************************************************************)
(* Inputs of the generators: a prefix followed by a tail built from the    *)
(* token grammar and its malformed neighbours.                             *)
(***************************************************************************)
DigitChars == {"0", "9"}

RECURSIVE SeqsOfLen(_, _)
SeqsOfLen(S, n) ==
  IF n = 0 THEN {<< >>}
  ELSE {Append(s, c) : s \in SeqsOfLen(S, n - 1), c \in S}

DigitStrings == UNION {SeqsOfLen(DigitChars, n) : n \in 1..MaxDigits}

\* The largest int, and a digit string ten times larger.
BigStrings == {Itoa(MaxInt), Append(Itoa(MaxInt), "0")}

Args ==
  DigitStrings \cup BigStrings
    \cup {<< >>, << "a" >>, << "-", "9" >>, << "+", "9" >>}

Closers == {<< ")" >>, << >>, << ")", "x" >>}

Tails ==
  {<< >>, << "x" >>}
    \cup {<< "(" >> \o a \o << ":" >> \o b \o c :
             a \in Args, b \in Args, c \in Closers}
    \cup {<< "(" >> \o a \o c : a \in Args, c \in Closers}
    \cup {<< "(", "(" >> \o a \o << ")" >> : a \in Args}

GenInputs ==
  {p \o t : p \in {<< "$", "I", "N", "T" >>, << "$", "C", "H", "A", "R" >>},
            t \in Tails}

(***************************************************************************)
(* Documents.  A document is a heap of Go maps: a reference (the path of   *)
(* the object in the template, or copiedData) names a map from keys to     *)
(* values, and a nested object is held by reference.                       *)
(***************************************************************************)
Val(t, s, n, ref, elems) ==
  [t |-> t, s |-> s, n |-> n, ref |-> ref, elems |-> elems]

StringVal(s)    == Val("string", s, 0, << >>, << >>)
IntVal(n)       == Val("int", << >>, n, << >>, << >>)
Float64Val(n)   == Val("float64", << >>, n, << >>, << >>)
NilVal          == Val("nil", << >>, 0, << >>, << >>)
ArrayVal(elems) == Val("array", << >>, 0, << >>, elems)
MapVal(ref)     == Val("map", << >>, 0, ref, << >>)

originalData == << "data" >>
copiedData   == << "copiedData" >>

TopKeys    == {"a", "b"}
NestedKeys == {"a"}

KeysAt(ref) == IF ref = originalData THEN TopKeys ELSE NestedKeys

UUIDToken == << "$", "U", "U", "I", "D" >>
IntToken(lo, hi) ==
  << "$", "I", "N", "T", "(" >> \o lo \o << ":" >> \o hi \o << ")" >>
CharToken(n) == << "$", "C", "H", "A", "R", "(" >> \o n \o << ")" >>

\* The string values of the templates.
TemplateStrings ==
  { UUIDToken,
    IntToken(<< "0" >>, << "9" >>),
    IntToken(<< "9" >>, << "0" >>),
    IntToken(<< "0" >>, Itoa(MaxInt)),
    CharToken(<< "2" >>),
    CharToken(<< "-", "9" >>),
    << "$", "I", "N", "T", "E", "R" >>,
    << "$", "u", "u", "i", "d" >> }

\* The values of a template that are not objects.
Leaves ==
  {StringVal(s) : s \in TemplateStrings}
    \cup {Float64Val(7), NilVal, ArrayVal(<< UUIDToken >>)}

EmptyHeap == [r \in {} |-> 0]

\* The heaps json.Unmarshal can build for an object at ref with at most d
\* levels of objects below it: every key is absent, a leaf or an object.
\* KeyHeaps(ref, K, d) are those of the object restricted to its keys K.
RECURSIVE ObjectHeaps(_, _), KeyHeaps(_, _, _)
KeyHeaps(ref, K, d) ==
  IF K = {} THEN {ref :> EmptyHeap}
  ELSE LET k      == CHOOSE x \in K : TRUE
           rest   == KeyHeaps(ref, K \ {k}, d)
           nested == IF d = 0 THEN {}
                     ELSE ObjectHeaps(Append(ref, k), d - 1)
       IN  rest
             \cup {[h EXCEPT ![ref] = (k :> l) @@ @] : h \in rest, l \in Leaves}
             \cup {[h EXCEPT ![ref] = (k :> MapVal(Append(ref, k))) @@ @] @@ n :
                     h \in rest, n \in nested}

ObjectHeaps(ref, d) == KeyHeaps(ref, KeysAt(ref), d)

\* The template file: unreadable, not JSON, or the JSON of a document.
Templates ==
  {[status |-> "ok", heap |-> h] : h \in ObjectHeaps(originalData, MaxDepth)}
    \cup {[status |-> st, heap |-> EmptyHeap] : st \in {"unreadable", "invalid"}}

\* json.MarshalIndent(ref): the value tree reachable from ref.
RECURSIVE Reach(_, _)
Reach(h, ref) ==
  {ref} \cup UNION {Reach(h, h[ref][k].ref) :
                      k \in {x \in DOMAIN h[ref] : h[ref][x].t = "map"}}

MarshalIndent(h, ref) == [r \in Reach(h, ref) |-> h[r]]

(***************************************************************************)
(* State.                                                                  *)
(***************************************************************************)
VARIABLES
  value,            \* the string handed to a generator
  fn,               \* the generator applied to value: "none" before a call
  result,           \* what the call returned
  pc,               \* where main is
  sourcePath,       \* flag -t
  destinationPath,  \* flag -o
  template,         \* the template file
  heap,             \* the maps of the document and of its copy
  stack,            \* the frames of traverseAndUpdate: data, copiedData, keys left
  console,          \* what colorize and Println wrote, in order
  updatedJSON,      \* what MarshalIndent returned
  destination,      \* the destination file's content
  steps,            \* history: the steps of main executed, in order
  visited           \* history: the keys the range loops reached

genVars == << value, fn, result >>

mainVars ==
  << pc, sourcePath, destinationPath, template, heap, stack, console,
     updatedJSON, destination, steps, visited >>

vars == << genVars, mainVars >>

(***************************************************************************)
(* The generators applied to every input.                                  *)
(***************************************************************************)
MainIdle ==
  /\ pc = "idle"
  /\ sourcePath = << >>
  /\ destinationPath = << >>
  /\ template = [status |-> "unreadable", heap |-> EmptyHeap]
  /\ heap = EmptyHeap
  /\ stack = << >>
  /\ console = << >>
  /\ updatedJSON = EmptyHeap
  /\ destination = EmptyHeap
  /\ steps = << >>
  /\ visited = {}

GenInit ==
  /\ value \in GenInputs
  /\ fn = "none"
  /\ result = NoResult
  /\ MainIdle

CallGetInt ==
  /\ pc = "idle"
  /\ fn = "none"
  /\ \E src \in RandSources :
       result' = getInt(value, src)
  /\ fn' = "getInt"
  /\ UNCHANGED << value, mainVars >>

CallRandomString ==
  /\ pc = "idle"
  /\ fn = "none"
  /\ \E src \in RandSources :
       result' = randomString(value, src)
  /\ fn' = "randomString"
  /\ UNCHANGED << value, mainVars >>

GenNext == CallGetInt \/ CallRandomString

SpecGen == GenInit /\ [][GenNext]_vars

(***************************************************************************)
(* main.                                                                   *)
(***************************************************************************)
GenIdle ==
  /\ value = << >>
  /\ fn = "none"
  /\ result = NoResult

Paths == {<< >>, << "f" >>}

Init ==
  /\ GenIdle
  /\ pc = "main"
  /\ sourcePath \in Paths
  /\ destinationPath \in Paths
  /\ template \in Templates
  /\ heap = EmptyHeap
  /\ stack = << >>
  /\ console = << >>
  /\ updatedJSON = EmptyHeap
  /\ destination = EmptyHeap
  /\ steps = << >>
  /\ visited = {}

\* colorize(color, message): one line on the console.
Line(color, msg, key, v, err) ==
  [color |-> color, msg |-> msg, key |-> key, value |-> v, err |-> err]

colorize(color, msg) ==
  console' = Append(console, Line(color, msg, "", << >>, ""))

\* main, lines 59-62: the source flag.
CheckSource ==
  /\ pc = "main"
  /\ IF sourcePath = << >>
     THEN /\ colorize("red", "template file not passed")
          /\ pc' = "exit"
     ELSE /\ pc' = "ReadFile"
          /\ UNCHANGED console
  /\ UNCHANGED << genVars, sourcePath, destinationPath, template, heap, stack,
                  updatedJSON, destination, steps, visited >>

\* ReadFile without the return after a read error.
ReadFileFallThrough ==
  /\ pc = "ReadFile"
  /\ steps' = Append(steps, "ReadFile")
  /\ IF template.status = "unreadable"
     THEN colorize("red", "read error")
     ELSE UNCHANGED console
  /\ pc' = "Unmarshal"
  /\ UNCHANGED << genVars, sourcePath, destinationPath, template, heap, stack,
                  updatedJSON, destination, visited >>

\* main, lines 64-68.
ReadFile ==
  /\ pc = "ReadFile"
  /\ steps' = Append(steps, "ReadFile")
  /\ IF template.status = "unreadable"
     THEN /\ colorize("red", "read error")
          /\ pc' = "exit"
     ELSE /\ pc' = "Unmarshal"
          /\ UNCHANGED console
  /\ UNCHANGED << genVars, sourcePath, destinationPath, template, heap, stack,
                  updatedJSON, destination, visited >>

\* main, lines 70-74.
Unmarshal ==
  /\ pc = "Unmarshal"
  /\ steps' = Append(steps, "Unmarshal")
  /\ IF template.status = "invalid"
     THEN /\ colorize("red", "parse error")
          /\ pc' = "exit"
          /\ UNCHANGED heap
     ELSE /\ heap' = template.heap
          /\ pc' = "copyData"
          /\ UNCHANGED console
  /\ UNCHANGED << genVars, sourcePath, destinationPath, template, stack,
                  updatedJSON, destination, visited >>

\* copyData: a new map with the entries of original.
copyData(original) == (copiedData :> heap[original]) @@ heap

\* main, line 76.
CopyData ==
  /\ pc = "copyData"
  /\ steps' = Append(steps, "copyData")
  /\ heap' = copyData(originalData)
  /\ pc' = "traverseAndUpdate"
  /\ UNCHANGED << genVars, sourcePath, destinationPath, template, stack,
                  console, updatedJSON, destination, visited >>

Frame(data, copied) == [data |-> data, copied |-> copied, todo |-> DOMAIN heap[data]]

\* main, line 77: the call of traverseAndUpdate.
StartWalk ==
  /\ pc = "traverseAndUpdate"
  /\ steps' = Append(steps, "traverseAndUpdate")
  /\ stack' = << Frame(originalData, copiedData) >>
  /\ pc' = "range"
  /\ UNCHANGED << genVars, sourcePath, destinationPath, template, heap,
                  console, updatedJSON, destination, visited >>

Top == stack[Len(stack)]

Visit(k) ==
  visited' = visited \cup {[data |-> Top.data, copied |-> Top.copied, key |-> k]}

Rest(k) == [stack EXCEPT ![Len(stack)].todo = @ \ {k}]

\* parseAndUpdate storing the returned value whatever the error.
parseAndUpdateIgnoringErr(key, v, data, copied, src) ==
  LET updater == getUpdater(v)
      r       == Update(updater, v, src)
      newVal  == IF r.kind = "int" THEN IntVal(r.n) ELSE StringVal(r.s)
  IN  IF updater = "nil"
      THEN UNCHANGED << genVars, heap, console, pc >>
      ELSE /\ value' = v
           /\ fn' = updater
           /\ result' = r
           /\ IF r.panic # ""
              THEN /\ pc' = "panic"
                   /\ UNCHANGED << heap, console >>
              ELSE /\ heap' = [heap EXCEPT ![data][key] = newVal,
                                           ![copied][key] = newVal]
                   /\ UNCHANGED << console, pc >>

\* parseAndUpdate storing the new value in data alone.
parseAndUpdateDataOnly(key, v, data, copied, src) ==
  LET updater == getUpdater(v)
      r       == Update(updater, v, src)
      newVal  == IF r.kind = "int" THEN IntVal(r.n) ELSE StringVal(r.s)
  IN  IF updater = "nil"
      THEN UNCHANGED << genVars, heap, console, pc >>
      ELSE /\ value' = v
           /\ fn' = updater
           /\ result' = r
           /\ IF r.panic # ""
              THEN /\ pc' = "panic"
                   /\ UNCHANGED << heap, console >>
              ELSE IF r.err = ""
              THEN /\ heap' = [heap EXCEPT ![data][key] = newVal]
                   /\ UNCHANGED << console, pc >>
              ELSE /\ console' = Append(console,
                                   Line("red", "Error updating key", key, v, r.err))
                   /\ UNCHANGED << heap, pc >>

\* parseAndUpdate
parseAndUpdate(key, v, data, copied, src) ==
  LET updater == getUpdater(v)
      r       == Update(updater, v, src)
      newVal  == IF r.kind = "int" THEN IntVal(r.n) ELSE StringVal(r.s)
  IN  IF updater = "nil"
      THEN UNCHANGED << genVars, heap, console, pc >>
      ELSE /\ value' = v
           /\ fn' = updater
           /\ result' = r
           /\ IF r.panic # ""
              THEN /\ pc' = "panic"
                   /\ UNCHANGED << heap, console >>
              ELSE IF r.err = ""
              THEN /\ heap' = [heap EXCEPT ![data][key] = newVal,
                                           ![copied][key] = newVal]
                   /\ UNCHANGED << console, pc >>
              ELSE /\ console' = Append(console,
                                   Line("red", "Error updating key", key, v, r.err))
                   /\ UNCHANGED << heap, pc >>

\* traverseAndUpdate, lines 113-114: a nested map; the type assertion on
\* the copy's value panics when that value is no map.
VisitMap ==
  /\ pc = "range"
  /\ stack # << >>
  /\ \E k \in Top.todo :
       /\ heap[Top.data][k].t = "map"
       /\ Visit(k)
       /\ IF heap[Top.copied][k].t = "map"
          THEN /\ stack' = Append(Rest(k),
                             Frame(heap[Top.data][k].ref, heap[Top.copied][k].ref))
               /\ UNCHANGED pc
          ELSE /\ pc' = "panic"
               /\ UNCHANGED stack
  /\ UNCHANGED << genVars, sourcePath, destinationPath, template, heap,
                  console, updatedJSON, destination, steps >>

\* traverseAndUpdate, lines 115-116: a string.
VisitString ==
  /\ pc = "range"
  /\ stack # << >>
  /\ \E k \in Top.todo :
       /\ heap[Top.data][k].t = "string"
       /\ Visit(k)
       /\ stack' = Rest(k)
       /\ \E src \in RandSources :
            parseAndUpdate(k, heap[Top.data][k].s, Top.data, Top.copied, src)
  /\ UNCHANGED << sourcePath, destinationPath, template, updatedJSON,
                  destination, steps >>

\* traverseAndUpdate, lines 112-117: any other value is passed over.
VisitOther ==
  /\ pc = "range"
  /\ stack # << >>
  /\ \E k \in Top.todo :
       /\ heap[Top.data][k].t \notin {"map", "string"}
       /\ Visit(k)
       /\ stack' = Rest(k)
  /\ UNCHANGED << genVars, pc, sourcePath, destinationPath, template, heap,
                  console, updatedJSON, destination, steps >>

\* traverseAndUpdate, line 118-119: the range is over; the outermost call
\* returns to main.
Return ==
  /\ pc = "range"
  /\ stack # << >>
  /\ Top.todo = {}
  /\ stack' = SubSeq(stack, 1, Len(stack) - 1)
  /\ pc' = IF Len(stack) = 1 THEN "MarshalIndent" ELSE "range"
  /\ UNCHANGED << genVars, sourcePath, destinationPath, template, heap,
                  console, updatedJSON, destination, steps, visited >>

\* main, lines 79-83: the serializer returns the JSON text or an error.
Marshal ==
  /\ pc = "MarshalIndent"
  /\ steps' = Append(steps, "MarshalIndent")
  /\ \/ /\ updatedJSON' = MarshalIndent(heap, copiedData)
        /\ pc' = "output"
        /\ UNCHANGED console
     \/ /\ colorize("red", "Error: marshal")
        /\ pc' = "exit"
        /\ UNCHANGED updatedJSON
  /\ UNCHANGED << genVars, sourcePath, destinationPath, template, heap, stack,
                  destination, visited >>

\* main, lines 85-91 and writeToFile: the write succeeds or fails.
WriteToFile ==
  /\ pc = "output"
  /\ destinationPath # << >>
  /\ steps' = Append(steps, "writeToFile")
  /\ \/ /\ destination' = updatedJSON
        /\ colorize("green", "JSON generated successfully")
     \/ /\ colorize("red", "Error: write")
        /\ UNCHANGED destination
  /\ pc' = "exit"
  /\ UNCHANGED << genVars, sourcePath, destinationPath, template, heap, stack,
                  updatedJSON, visited >>

\* main, lines 92-94.
Println ==
  /\ pc = "output"
  /\ destinationPath = << >>
  /\ steps' = Append(steps, "Println")
  /\ colorize("", "updatedJSON")
  /\ pc' = "exit"
  /\ UNCHANGED << genVars, sourcePath, destinationPath, template, heap, stack,
                  updatedJSON, destination, visited >>

Next ==
  \/ CheckSource
  \/ ReadFile
  \/ Unmarshal
  \/ CopyData
  \/ StartWalk
  \/ VisitMap
  \/ VisitString
  \/ VisitOther
  \/ Return
  \/ Marshal
  \/ WriteToFile
  \/ Println

Spec == Init /\ [][Next]_vars

(***************************************************************************)
(* Vocabulary of the properties, stated apart from the operators above.    *)
(***************************************************************************)
\* The number a digit string denotes.
RECURSIVE DecimalValue(_)
DecimalValue(ds) ==
  IF ds = << >> THEN 0
  ELSE DecimalValue(SubSeq(ds, 1, Len(ds) - 1)) * 10 + DigitVal(ds[Len(ds)])

Fits(ds) == DecimalValue(ds) <= MaxInt

\* The pairs << lower, upper >> of digit strings with s = $INT(lower:upper).
IntBounds(s) ==
  {b \in {<< SubSeq(s, 6, i - 1), SubSeq(s, i + 1, Len(s) - 1) >> :
            i \in 7..(Len(s) - 2)} :
     AllDigits(b[1]) /\ AllDigits(b[2]) /\ s = IntToken(b[1], b[2])}

\* The digit strings n with s = $CHAR(n).
CharLengths(s) ==
  {n \in {SubSeq(s, 7, Len(s) - 1)} : AllDigits(n) /\ s = CharToken(n)}

StartsWith(s, p) == Len(s) >= Len(p) /\ \A i \in 1..Len(p) : s[i] = p[i]

IntPrefix  == << "$", "I", "N", "T" >>
CharPrefix == << "$", "C", "H", "A", "R" >>

HasTokenPrefix(s) == \E p \in {UUIDToken, IntPrefix, CharPrefix} : StartsWith(s, p)

\* The token grammar: $UUID, $INT, $INT(lower:upper), $CHAR, $CHAR(n).
MatchesTokenGrammar(s) ==
  \/ s \in {UUIDToken, IntPrefix, CharPrefix}
  \/ IntBounds(s) # {}
  \/ CharLengths(s) # {}

InCharset(s) == \A i \in 1..Len(s) : \E j \in 1..Len(charset) : s[i] = charset[j]

Returned == result.err = "" /\ result.panic = ""

(***************************************************************************)
(* Properties of the generators (SpecGen).                                 *)
(***************************************************************************)
\* C2: for every token $INT(lo:hi) whose bounds are ints with lo <= hi,
\* getInt returns no error and an integer v with lo <= v <= hi.
C2_IntWithinBounds ==
  fn = "getInt" =>
    \A b \in IntBounds(value) :
      (Fits(b[1]) /\ Fits(b[2]) /\ DecimalValue(b[1]) <= DecimalValue(b[2])) =>
        /\ Returned
        /\ result.kind = "int"
        /\ DecimalValue(b[1]) <= result.n
        /\ result.n <= DecimalValue(b[2])

\* C4: for every string starting with $INT that is not of the exact form
\* $INT(<digits>:<digits>), getInt returns no error and an integer in
\* [0, 9999].
C4_DefaultIntRange ==
  (fn = "getInt" /\ StartsWith(value, IntPrefix) /\ IntBounds(value) = {}) =>
    /\ Returned
    /\ result.kind = "int"
    /\ 0 <= result.n
    /\ result.n <= 9999

C4_Witness ==
  /\ fn = "getInt"
  /\ value = IntPrefix \o << "(", "a", ":", "a", ")" >>
  /\ Returned
  /\ result.n = 9999

\* C5: for every token $CHAR(n) with n >= 0, randomString returns no error
\* and a string of exactly n characters of [a-zA-Z0-9]; the bare token
\* $CHAR yields exactly 10 characters.
C5_CharLength ==
  fn = "randomString" =>
    /\ \A n \in CharLengths(value) :
         Fits(n) =>
           /\ Returned
           /\ result.kind = "string"
           /\ Len(result.s) = DecimalValue(n)
           /\ InCharset(result.s)
    /\ value = CharPrefix =>
         Returned /\ result.kind = "string" /\ Len(result.s) = 10

\* C9 as stated: for a token of the form $INT(<lower>:<upper>) the only
\* error is lower > upper, and a bound that fails to parse gives no error
\* but an integer in [0, 9999].
C9_ParseFailureDegrades ==
  fn = "getInt" =>
    \A b \in IntBounds(value) :
      /\ result.err # "" => DecimalValue(b[1]) > DecimalValue(b[2])
      /\ (~Fits(b[1]) \/ ~Fits(b[2])) =>
           Returned /\ 0 <= result.n /\ result.n <= 9999

\* C9 as amended: for a token of the form $INT(<lower>:<upper>) getInt
\* returns the error "invalid INT range" exactly when a bound fails to
\* parse or lower > upper; a parse failure never takes the default path.
C9_ParseFailureIsAnError ==
  fn = "getInt" =>
    \A b \in IntBounds(value) :
      /\ (~Fits(b[1]) \/ ~Fits(b[2])
            \/ DecimalValue(b[1]) > DecimalValue(b[2]))
           <=> result.err = "invalid INT range"
      /\ result.err \in {"", "invalid INT range"}

C9_Witness ==
  /\ fn = "getInt"
  /\ value = IntToken(<< "0" >>, Append(Itoa(MaxInt), "0"))
  /\ result.err = "invalid INT range"

\* The length argument of a string starting with $CHAR is absent or
\* invalid: no parenthesis, several, or an argument that is no integer, is
\* negative or does not fit in an int.
ArgAbsentOrInvalid(s) ==
  LET opens == {i \in 1..Len(s) : s[i] = "("}
      i     == CHOOSE x \in opens : TRUE
      raw   == SubSeq(s, i + 1, Len(s))
      arg   == IF raw # << >> /\ raw[Len(raw)] = ")"
               THEN SubSeq(raw, 1, Len(raw) - 1) ELSE raw
  IN  \/ Cardinality(opens) # 1
      \/ /\ ~AllDigits(arg)
         /\ ~(arg # << >> /\ arg[1] = "+" /\ AllDigits(Tail(arg)))
      \/ AllDigits(arg) /\ ~Fits(arg)

\* C10: for every string starting with $CHAR whose length argument is
\* absent or invalid (missing, not numeric, negative, several parentheses)
\* randomString returns, without error or run-time failure, a string of the
\* default length 10.
C10_NoFailurePath ==
  (fn = "randomString" /\ StartsWith(value, CharPrefix)
     /\ ArgAbsentOrInvalid(value)) =>
    /\ Returned
    /\ result.kind = "string"
    /\ Len(result.s) = 10

(***************************************************************************)
(* Properties of the walk and of main (Spec).                              *)
(***************************************************************************)
\* The document as json.Unmarshal built it.
Orig == template.heap

Loaded == originalData \in DOMAIN heap

Copied == copiedData \in DOMAIN heap

Ran(step) == \E i \in 1..Len(steps) : steps[i] = step

\* traverseAndUpdate has returned to main.
WalkDone ==
  Ran("traverseAndUpdate") /\ pc \in {"MarshalIndent", "output", "exit"}

\* The value now held for the key k of the template's object r, in the
\* document and (for a top-level key, once copied) in the working copy.
Holders(r) == {r} \cup (IF r = originalData /\ Copied THEN {copiedData} ELSE {})

\* The places << r, h, k >> whose value differs from the template's: key k
\* of the template's object r, held in the map h.
Changed ==
  {p \in UNION {{<< r, h, k >> : h \in Holders(r), k \in DOMAIN Orig[r]} :
                  r \in DOMAIN Orig} :
     heap[p[2]][p[3]] # Orig[p[1]][p[3]]}

\* The key sets and the nesting are those of the template, and what changed
\* was a string and is now a string or an integer.
ShapeKept ==
  /\ DOMAIN heap \ {copiedData} = DOMAIN Orig
  /\ \A r \in DOMAIN Orig : \A h \in Holders(r) :
       DOMAIN heap[h] = DOMAIN Orig[r]
  /\ \A p \in Changed :
       /\ Orig[p[1]][p[3]].t = "string"
       /\ heap[p[2]][p[3]].t \in {"string", "int"}

\* C1 as stated: the walk keeps the key set and the nesting of the document
\* at every level, and changes only string leaves that match the token
\* grammar $UUID, $INT, $INT(lower:upper), $CHAR, $CHAR(n).
C1_OnlyGrammarTokensChange ==
  Loaded =>
    /\ ShapeKept
    /\ \A p \in Changed : MatchesTokenGrammar(Orig[p[1]][p[3]].s)

\* C1 as amended: the walk keeps the key set and the nesting of the document
\* at every level, and changes only string leaves that start with $UUID,
\* $INT or $CHAR; every other value is unchanged.
C1_OnlyPrefixedStringsChange ==
  Loaded =>
    /\ ShapeKept
    /\ \A p \in Changed : HasTokenPrefix(Orig[p[1]][p[3]].s)

C1_Witness ==
  /\ WalkDone
  /\ \E r \in DOMAIN Orig : \E k \in DOMAIN Orig[r] :
       /\ Len(r) > 1
       /\ Orig[r][k] = StringVal(<< "$", "I", "N", "T", "E", "R" >>)
       /\ heap[r][k].t = "int"
  /\ \E k \in DOMAIN Orig[originalData] :
       /\ Orig[originalData][k].t = "array"
       /\ heap[copiedData][k] = Orig[originalData][k]

\* The string is a token $INT(lo:hi) with lo > hi.
LowerAboveUpper(s) ==
  \E b \in IntBounds(s) : DecimalValue(b[1]) > DecimalValue(b[2])

AllKeysVisited ==
  \A r \in DOMAIN Orig : \A k \in DOMAIN Orig[r] :
    \E v \in visited : v.data = r /\ v.key = k

\* C3: a token $INT(lo:hi) with lo > hi reached by the walk fails with
\* "invalid INT range" and stays in place in the document and in the working
\* copy; the error does not end the walk, which still reaches every key.
C3_RangeErrorIsLocal ==
  /\ \A v \in visited :
       LET o == Orig[v.data][v.key]
       IN  (o.t = "string" /\ LowerAboveUpper(o.s)) =>
             /\ heap[v.data][v.key] = o
             /\ heap[v.copied][v.key] = o
             /\ \E i \in 1..Len(console) :
                  /\ console[i].key = v.key
                  /\ console[i].value = o.s
                  /\ console[i].err = "invalid INT range"
  /\ pc = "panic" => result.panic # "" /\ result.err = ""
  /\ WalkDone => AllKeysVisited

C3_Witness ==
  /\ WalkDone
  /\ \E v \in visited :
       /\ Orig[v.data][v.key].t = "string"
       /\ LowerAboveUpper(Orig[v.data][v.key].s)
       /\ console[1].key = v.key
       /\ \E w \in visited :
            /\ w.key # v.key
            /\ Orig[w.data][w.key] = StringVal(UUIDToken)
            /\ heap[w.data][w.key] # Orig[w.data][w.key]

\* C6: once traverseAndUpdate has returned, the working copy and the
\* document hold equal values at every key the walk visited, at every level.
C6_CopyEqualsDocument ==
  WalkDone =>
    \A v \in visited : heap[v.copied][v.key] = heap[v.data][v.key]

C6_Witness ==
  /\ WalkDone
  /\ \E v \in visited :
       /\ v.data = originalData
       /\ Orig[originalData][v.key] = StringVal(UUIDToken)
       /\ heap[copiedData][v.key] # Orig[originalData][v.key]
  /\ \E v \in visited :
       /\ Len(v.data) > 1
       /\ Orig[v.data][v.key].t = "string"
       /\ LowerAboveUpper(Orig[v.data][v.key].s)

\* A token the walk is to replace: $UUID, $INT(lo:hi) with int bounds and
\* lo <= hi, or $CHAR(n).
Replaceable(s) ==
  \/ s = UUIDToken
  \/ \E b \in IntBounds(s) :
       Fits(b[1]) /\ Fits(b[2]) /\ DecimalValue(b[1]) <= DecimalValue(b[2])
  \/ CharLengths(s) # {}

\* C7: in a document whose string values are $UUID, $INT(lo:hi) with
\* lo <= hi or $CHAR(n) with n >= 0, the walk returns and then every such
\* key holds a generated value, not its token, in the document and in the
\* working copy.
C7_TokensAreReplaced ==
  (/\ Loaded
   /\ \A r \in DOMAIN Orig : \A k \in DOMAIN Orig[r] :
        Orig[r][k].t = "string" => Replaceable(Orig[r][k].s)) =>
    /\ pc # "panic"
    /\ WalkDone =>
         \A r \in DOMAIN Orig : \A h \in Holders(r) : \A k \in DOMAIN Orig[r] :
           Orig[r][k].t = "string" => heap[h][k] # Orig[r][k]

StructuralErrors ==
  {"template file not passed", "read error", "parse error", "Error: marshal",
   "Error: write"}

\* The step of main that reports the error.
FailingStep(msg) ==
  CASE msg = "read error"     -> "ReadFile"
    [] msg = "parse error"    -> "Unmarshal"
    [] msg = "Error: marshal" -> "MarshalIndent"
    [] msg = "Error: write"   -> "writeToFile"
    [] OTHER                  -> "none"

Last(q) == q[Len(q)]

OutputDone ==
  \/ destination # EmptyHeap
  \/ \E i \in 1..Len(console) : console[i].msg = "updatedJSON"

\* C8: a structural error (no source path, unreadable source, invalid JSON,
\* serialization failure, unwritable destination) is reported and ends the
\* run at the step that met it, with nothing written or printed; without a
\* source path no file is read or written; an error of a generator never
\* ends the run.
C8_StructuralErrorsStopTheRun ==
  /\ \A i \in 1..Len(console) :
       console[i].msg \in StructuralErrors =>
         /\ i = Len(console)
         /\ pc = "exit"
         /\ ~OutputDone
         /\ IF console[i].msg = "template file not passed"
            THEN steps = << >>
            ELSE steps # << >> /\ Last(steps) = FailingStep(console[i].msg)
  /\ sourcePath = << >> => steps = << >>
  /\ pc = "exit" =>
       \/ OutputDone
       \/ console # << >> /\ Last(console).msg \in StructuralErrors
  /\ pc = "panic" => result.panic # "" /\ result.err = ""

C8_Witness ==
  /\ pc = "exit"
  /\ Len(console) = 2
  /\ console[1].msg = "Error updating key"
  /\ console[2].msg = "Error: write"
  /\ Last(steps) = "writeToFile"
  /\ ~OutputDone

=============================================================================
